---- MODULE Spec2Model ----
(***************************************************************************)
(* Model of internal/psql/dataset.go: the dataset store of qvain-api.       *)
(* The `datasets` relation is a set of rows; every handler of the file is   *)
(* a sequence of SQL statements run by a client process against it under    *)
(* PostgreSQL's default read-committed isolation.                           *)
(*                                                                          *)
(* Granularity.  A statement is one atomic step.  A statement that is       *)
(* directly followed by Commit is taken together with that Commit: the row  *)
(* lock the statement acquires is held until the Commit, so nothing another *)
(* transaction does can be ordered between the two.  Statements of one      *)
(* transaction separated by client code (CheckOwner, getFamily, the inserts *)
(* of BatchStore) are separate steps, and other processes run between them. *)
(***************************************************************************)
EXTENDS Integers, Sequences, FiniteSets, TLC

\* ---------------------------------------------------------------- bounds
MaxOps == 2        \* number of handler calls in one behaviour
MaxBatch == 2      \* longest list given to BatchStore

\* ---------------------------------------------------------------- values
\* The slots of concurrently running handlers (client goroutines).
Procs == {1, 2}
Ids == {"a", "b"}
Uids == {"u1", "u2"}
NoId == "none"
NoTime == 0

\* A JSON value below the top level: absent, a number, or an object whose
\* members are <<key, number>> pairs.
JAbsent == [kind |-> "absent", num |-> 0, obj |-> {}]
JNum(n) == [kind |-> "num", num |-> n, obj |-> {}]
JObj(members) == [kind |-> "obj", num |-> 0, obj |-> members]

\* A JSON document (jsonb object): its top-level keys.
Keys == {"k1", "k2"}
EmptyDoc == [k \in Keys |-> JAbsent]
DocBase == [k1 |-> JNum(1), k2 |-> JObj({<<"n1", 1>>})]
DocNested == [k1 |-> JAbsent, k2 |-> JObj({<<"n2", 2>>})]
DocFlat == [k1 |-> JNum(2), k2 |-> JAbsent]
\* The documents handlers are called with.
Blobs == {DocNested, DocFlat}

\* Variant: a recursive merge, members of nested objects are merged as well.
JsonConcatDeep(old, patch) ==
    [k \in Keys |->
        IF patch[k].kind = "absent" THEN old[k]
        ELSE IF patch[k].kind = "obj" /\ old[k].kind = "obj"
        THEN JObj(patch[k].obj \cup
                  { m \in old[k].obj : \A n \in patch[k].obj : n[1] # m[1] })
        ELSE patch[k]]

\* jsonb `||` of two objects: the right operand's top-level members replace
\* or extend the left operand's; nothing below the top level is merged.
JsonConcat(old, patch) ==
    [k \in Keys |-> IF patch[k].kind # "absent" THEN patch[k] ELSE old[k]]

\* jsonb `#>` with a one-element path: the member at that key (SQL NULL,
\* here JAbsent, when the document has no such member).
JsonExtractPath(doc, key) == doc[key]

\* models.LookupFamily: the registered families and their update policy.
FamilyFull == 1
FamilyPartial == 2
Families == {FamilyFull, FamilyPartial}
LookupFamily(famId) ==
    IF famId \in Families
    THEN [err |-> "nil", partial |-> (famId = FamilyPartial), key |-> "k2"]
    ELSE [err |-> "ErrInvalidFamily", partial |-> FALSE, key |-> ""]

\* handleError: the engine's "no rows" becomes ErrNotFound, any other engine
\* error a storage failure; the package's own errors pass through.
handleError(err) ==
    CASE err = "ErrNoRows" -> "ErrNotFound"
      [] err \in {"nil", "ErrNotFound", "ErrNotOwner", "ErrInvalidFamily"} -> err
      [] OTHER -> "ErrStorage"

\* ---------------------------------------------------------------- inputs
\* The *models.Dataset values handed to Store and BatchStore.
Dataset(id, creator, owner, family, blob) ==
    [id |-> id, creator |-> creator, owner |-> owner, family |-> family,
     schema |-> "s", blob |-> blob]
Datasets ==
    { Dataset("a", "u1", "u1", FamilyFull, DocBase),
      Dataset("b", "u1", "u2", FamilyPartial, DocBase) }

RECURSIVE SeqsUpTo(_, _)
SeqsUpTo(S, n) ==
    IF n = 0 THEN { <<>> }
    ELSE LET shorter == SeqsUpTo(S, n - 1)
         IN  shorter \cup { Append(s, x) : s \in { t \in shorter : Len(t) = n - 1 }, x \in S }
Batches == SeqsUpTo(Datasets, MaxBatch)

Args(id, newid, uid, blob, published, batch) ==
    [id |-> id, newid |-> newid, uid |-> uid, blob |-> blob,
     published |-> published, batch |-> batch]
NoArgs == Args(NoId, NoId, NoId, EmptyDoc, FALSE, <<>>)

\* The handlers of the file.
GuardedOps == {"UpdateWithOwner", "PatchWithOwner", "SmartUpdateWithOwner",
               "MarkPublishedWithOwner", "GetWithOwner", "SmartGetWithOwner"}
Ops == GuardedOps \cup
       {"ChangeOwnerTo", "Store", "BatchStore", "Update", "Patch",
        "UpdateByService", "StorePublished", "Clone", "CheckOwner",
        "MarkPublished", "Get", "Delete", "ListAllForUid"}

\* The arguments a caller can pass to each handler.
OpArgs(o) ==
    CASE o \in {"Update", "Patch", "UpdateByService", "StorePublished"} ->
           { Args(i, NoId, NoId, b, FALSE, <<>>) : i \in Ids, b \in Blobs }
      [] o \in {"UpdateWithOwner", "PatchWithOwner", "SmartUpdateWithOwner"} ->
           { Args(i, NoId, u, b, FALSE, <<>>) : i \in Ids, u \in Uids, b \in Blobs }
      [] o \in {"ChangeOwnerTo", "CheckOwner", "GetWithOwner", "SmartGetWithOwner"} ->
           { Args(i, NoId, u, EmptyDoc, FALSE, <<>>) : i \in Ids, u \in Uids }
      [] o = "Get" ->
           { Args(i, NoId, NoId, EmptyDoc, FALSE, <<>>) : i \in Ids }
      [] o = "Delete" ->   \* owner is a pointer: NoId stands for nil
           { Args(i, NoId, u, EmptyDoc, FALSE, <<>>) : i \in Ids, u \in Uids \cup {NoId} }
      [] o = "ListAllForUid" ->
           { Args(NoId, NoId, u, EmptyDoc, FALSE, <<>>) : u \in Uids }
      [] o = "MarkPublished" ->
           { Args(i, NoId, NoId, EmptyDoc, f, <<>>) : i \in Ids, f \in BOOLEAN }
      [] o = "MarkPublishedWithOwner" ->
           { Args(i, NoId, u, EmptyDoc, f, <<>>) : i \in Ids, u \in Uids, f \in BOOLEAN }
      [] o = "Clone" ->
           { Args(i, n, NoId, b, FALSE, <<>>) : i \in Ids, n \in Ids, b \in Blobs }
      [] o = "Store" ->
           { Args(NoId, NoId, NoId, EmptyDoc, FALSE, <<d>>) : d \in Datasets }
      [] o = "BatchStore" ->
           { Args(NoId, NoId, NoId, EmptyDoc, FALSE, batch) : batch \in Batches }

\* ---------------------------------------------------------------- rows
\* seq of a row that no content write has touched.
DefaultSeq == 0

\* Variant: the owner column is filled from the creator.
InsertedRowOwnerFromCreator(d, now) ==
    [id |-> d.id, creator |-> d.creator, owner |-> d.creator,
     created |-> now, modified |-> now, synced |-> NoTime,
     published |-> FALSE, valid |-> FALSE,
     family |-> d.family, schema |-> d.schema, blob |-> d.blob,
     seq |-> DefaultSeq]

\* The row an INSERT of Tx.Store creates: the six supplied columns, the
\* other columns at the defaults of the relation.
InsertedRow(d, now) ==
    [id |-> d.id, creator |-> d.creator, owner |-> d.owner,
     created |-> now, modified |-> now, synced |-> NoTime,
     published |-> FALSE, valid |-> FALSE,
     family |-> d.family, schema |-> d.schema, blob |-> d.blob,
     seq |-> DefaultSeq]

\* The rows a statement's `WHERE id = $1` selects.
Matching(rows, id) == { r \in rows : r.id = id }
RowsAffected(rows, id) == Cardinality(Matching(rows, id))

\* What Scan and SetData build from a selected row.
ScanFull(r, withValid) ==
    [id |-> r.id, creator |-> r.creator, owner |-> r.owner,
     family |-> r.family, schema |-> r.schema,
     valid |-> (withValid /\ r.valid),
     projected |-> FALSE, blob |-> r.blob, part |-> JAbsent]
ScanProjected(r, key) ==
    [id |-> r.id, creator |-> r.creator, owner |-> r.owner,
     family |-> r.family, schema |-> r.schema, valid |-> FALSE,
     projected |-> TRUE, blob |-> EmptyDoc, part |-> JsonExtractPath(r.blob, key)]

\* ---------------------------------------------------------------- state
VARIABLES
    db,       \* the committed rows of the datasets relation
    pc,       \* per process: where its handler stands
    op,       \* per process: the handler it runs or ran last
    arg,      \* per process: the arguments of the running handler
    ret,      \* per process: what the last handler returned
    tx,       \* per process: state of the handler's transaction
    txTime,   \* per process: now() of its transaction (the begin time)
    pend,     \* per process: rows inserted by its open transaction
    fam,      \* per process: the family read by getFamily
    nops,     \* handler calls so far
    commits   \* per id: content writes committed on the row it has now

vars == <<db, pc, op, arg, ret, tx, txTime, pend, fam, nops, commits>>

NoRet == [err |-> "none", val |-> {}]

\* The stores a run can start from: the relation is persistent, its rows were
\* inserted by Store at an earlier time.
InitialStores ==
    { { InsertedRow(d, NoTime + 1) : d \in D } :
        D \in { E \in SUBSET Datasets : \A x, y \in E : x.id = y.id => x = y } }

Init ==
    /\ db \in InitialStores
    /\ pc = [p \in Procs |-> "idle"]
    /\ op = [p \in Procs |-> "none"]
    /\ arg = [p \in Procs |-> NoArgs]
    /\ ret = [p \in Procs |-> NoRet]
    /\ tx = [p \in Procs |-> "none"]
    /\ txTime = [p \in Procs |-> NoTime]
    /\ pend = [p \in Procs |-> {}]
    /\ fam = [p \in Procs |-> 0]
    /\ nops = 0
    /\ commits = [id \in Ids |-> 0]

\* Timestamps are only compared with each other: the clock reads later than
\* every time recorded so far, in a row or as the begin of an open transaction.
RECURSIVE MaxOf(_)
MaxOf(S) ==
    IF S = {} THEN NoTime
    ELSE LET x == CHOOSE y \in S : TRUE
             m == MaxOf(S \ {x})
         IN  IF x > m THEN x ELSE m
clock ==
    1 + MaxOf({ txTime[p] : p \in Procs }
              \cup UNION { {r.created, r.modified, r.synced} :
                           r \in db \cup UNION { pend[p] : p \in Procs } })

Quiet(p) == pc[p] \in {"idle", "done"}

\* A caller invokes a handler; it runs in the first free slot.
Call(p) ==
    /\ Quiet(p)
    /\ \A q \in Procs : q < p => ~Quiet(q)
    /\ nops < MaxOps
    /\ \E o \in Ops : \E a \in OpArgs(o) :
         /\ op' = [op EXCEPT ![p] = o]
         /\ arg' = [arg EXCEPT ![p] = a]
    /\ pc' = [pc EXCEPT ![p] = "called"]
    /\ ret' = [ret EXCEPT ![p] = NoRet]
    /\ tx' = [tx EXCEPT ![p] = "none"]
    /\ nops' = nops + 1
    /\ UNCHANGED <<db, txTime, pend, fam, commits>>

\* ---------------------------------------------------------------- statements
\* Each statement operator takes the rows the statement sees and returns the
\* error of the Go function around it and the rows after the statement.

\* Variant: the transfer of ownership counts as a content write.
ExecChangeOwnerBumpsSeq(rows, id, uid) ==
    [err |-> "nil",
     rows |-> { IF r.id = id THEN [r EXCEPT !.owner = uid, !.seq = @ + 1] ELSE r :
                r \in rows }]

\* Variant: an UPDATE that matched no row is reported as ErrNotFound.
ExecChangeOwnerChecked(rows, id, uid) ==
    [err |-> IF RowsAffected(rows, id) # 1 THEN "ErrNotFound" ELSE "nil",
     rows |-> { IF r.id = id THEN [r EXCEPT !.owner = uid] ELSE r : r \in rows }]

\* UPDATE datasets SET owner = $1 WHERE id = $2 (the tag is logged, not read)
ExecChangeOwner(rows, id, uid) ==
    [err |-> "nil",
     rows |-> { IF r.id = id THEN [r EXCEPT !.owner = uid] ELSE r : r \in rows }]

\* Tx.Store: INSERT of one row; id is the primary key.
txStore(rows, d, now) ==
    IF Matching(rows, d.id) # {}
    THEN [err |-> "UniqueViolation", rows |-> rows]
    ELSE [err |-> "nil", rows |-> rows \cup {InsertedRow(d, now)}]

\* Variant: the new document is concatenated to the old one, not put in its place.
txUpdateMerging(rows, id, blob, now) ==
    [err |-> IF RowsAffected(rows, id) # 1 THEN "ErrNotFound" ELSE "nil",
     rows |-> { IF r.id = id
                THEN [r EXCEPT !.modified = now, !.seq = @ + 1,
                               !.blob = JsonConcat(@, blob)]
                ELSE r : r \in rows }]

\* Variant: the new seq is a number the client sends, not seq + 1 of the row.
txUpdateSeqFromClient(rows, id, blob, now) ==
    [err |-> IF RowsAffected(rows, id) # 1 THEN "ErrNotFound" ELSE "nil",
     rows |-> { IF r.id = id
                THEN [r EXCEPT !.modified = now, !.seq = DefaultSeq + 1, !.blob = blob]
                ELSE r : r \in rows }]

\* Tx.update
txUpdate(rows, id, blob, now) ==
    [err |-> IF RowsAffected(rows, id) # 1 THEN "ErrNotFound" ELSE "nil",
     rows |-> { IF r.id = id
                THEN [r EXCEPT !.modified = now, !.seq = @ + 1, !.blob = blob]
                ELSE r : r \in rows }]

\* Variant: the service's write hands the row back to its creator.
txUpdateByServiceTakesOwner(rows, id, blob, now) ==
    [err |-> IF RowsAffected(rows, id) # 1 THEN "ErrNotFound" ELSE "nil",
     rows |-> { IF r.id = id
                THEN [r EXCEPT !.synced = now, !.seq = @ + 1, !.blob = blob,
                               !.owner = r.creator]
                ELSE r : r \in rows }]

\* Tx.updateByService
txUpdateByService(rows, id, blob, now) ==
    [err |-> IF RowsAffected(rows, id) # 1 THEN "ErrNotFound" ELSE "nil",
     rows |-> { IF r.id = id
                THEN [r EXCEPT !.synced = now, !.seq = @ + 1, !.blob = blob]
                ELSE r : r \in rows }]

\* Variant: the patch is merged into the document recursively.
txPatchDeep(rows, id, blob, now) ==
    [err |-> IF RowsAffected(rows, id) # 1 THEN "ErrNotFound" ELSE "nil",
     rows |-> { IF r.id = id
                THEN [r EXCEPT !.modified = now, !.seq = @ + 1,
                               !.blob = JsonConcatDeep(@, blob)]
                ELSE r : r \in rows }]

\* Tx.patch
txPatch(rows, id, blob, now) ==
    [err |-> IF RowsAffected(rows, id) # 1 THEN "ErrNotFound" ELSE "nil",
     rows |-> { IF r.id = id
                THEN [r EXCEPT !.modified = now, !.seq = @ + 1,
                               !.blob = JsonConcat(@, blob)]
                ELSE r : r \in rows }]

\* Variant: seq is set, not incremented.
ExecStorePublishedSeqSet(rows, id, blob, now) ==
    [err |-> IF RowsAffected(rows, id) # 1 THEN "ErrNotFound" ELSE "nil",
     rows |-> { IF r.id = id
                THEN [r EXCEPT !.blob = blob, !.published = TRUE,
                               !.synced = now, !.seq = 1]
                ELSE r : r \in rows }]

\* The UPDATE of DB.StorePublished
ExecStorePublished(rows, id, blob, now) ==
    [err |-> IF RowsAffected(rows, id) # 1 THEN "ErrNotFound" ELSE "nil",
     rows |-> { IF r.id = id
                THEN [r EXCEPT !.blob = blob, !.published = TRUE,
                               !.synced = now, !.seq = @ + 1]
                ELSE r : r \in rows }]

\* The INSERT ... (SELECT ... WHERE id = $1) of DB.Clone.  The SELECT names the
\* columns of datasets but has no FROM clause, so the engine rejects the
\* statement whatever its arguments are.
ExecClone(rows, id, newid, blob) ==
    [err |-> "UndefinedColumn", rows |-> rows]

\* Variant: publishing counts as a content change.
txMarkPublishedBumpsSeq(rows, id, published, timeNow) ==
    [err |-> IF RowsAffected(rows, id) # 1 THEN "ErrNotFound" ELSE "nil",
     rows |-> { IF r.id = id
                THEN [r EXCEPT !.published = published, !.synced = timeNow,
                               !.seq = @ + 1]
                ELSE r : r \in rows }]

\* Tx.markPublished
txMarkPublished(rows, id, published, timeNow) ==
    [err |-> IF RowsAffected(rows, id) # 1 THEN "ErrNotFound" ELSE "nil",
     rows |-> { IF r.id = id
                THEN [r EXCEPT !.published = published, !.synced = timeNow]
                ELSE r : r \in rows }]

\* Variant: the affected-row count is not read.
ExecDeleteUnchecked(rows, id) ==
    [err |-> "nil", rows |-> rows \ Matching(rows, id)]

\* The DELETE of DB.Delete
ExecDelete(rows, id) ==
    [err |-> IF RowsAffected(rows, id) # 1 THEN "ErrNotFound" ELSE "nil",
     rows |-> rows \ Matching(rows, id)]

\* Variant: a missing row is not reported.
txCheckOwnerMissingOk(rows, id, owner) ==
    IF \E r \in Matching(rows, id) : r.owner # owner THEN "ErrNotOwner" ELSE "nil"

\* Variant: isOwner is not read.
txCheckOwnerAnyOwner(rows, id, owner) ==
    IF Matching(rows, id) = {} THEN handleError("ErrNoRows") ELSE "nil"

\* Tx.CheckOwner
txCheckOwner(rows, id, owner) ==
    IF Matching(rows, id) = {} THEN handleError("ErrNoRows")
    ELSE IF \E r \in Matching(rows, id) : r.owner # owner THEN "ErrNotOwner"
    ELSE "nil"

\* Tx.getFamily
txGetFamily(rows, id) ==
    IF Matching(rows, id) = {}
    THEN [err |-> handleError("ErrNoRows"), fam |-> 0]
    ELSE [err |-> "nil", fam |-> (CHOOSE r \in Matching(rows, id) : TRUE).family]

\* Tx.get
txGet(rows, id, key) ==
    IF Matching(rows, id) = {}
    THEN [err |-> handleError("ErrNoRows"), val |-> {}]
    ELSE [err |-> "nil",
          val |-> { IF key = "" THEN ScanFull(r, FALSE) ELSE ScanProjected(r, key) :
                    r \in Matching(rows, id) }]

\* The SELECT, Scan and SetData of DB.Get
ExecGet(rows, id) ==
    IF Matching(rows, id) = {}
    THEN [err |-> handleError("ErrNoRows"), val |-> {}]
    ELSE [err |-> "nil", val |-> { ScanFull(r, TRUE) : r \in Matching(rows, id) }]

\* The query and row loop of DB.ListAllForUid: Scan is given values where it
\* needs pointers, so it fails on the first row there is.
ExecListAllForUid(rows, uid) ==
    IF { r \in rows : r.owner = uid } # {}
    THEN [err |-> "ErrScan", val |-> {}]
    ELSE [err |-> "nil", val |-> {}]

\* ---------------------------------------------------------------- transactions
\* `defer tx.Rollback()` with `return tx.Commit()` on the success path: the
\* statements' rows become the relation only when the handler got no error.
\* Variant: the deferred Rollback undoes a transaction that has committed.
RollbackUndoesCommit(status) ==
    IF status \in {"open", "committed"} THEN "rolledback" ELSE status

\* tx.Commit() and tx.Rollback() on the status of a transaction: each ends an
\* open transaction and leaves one that has ended as it is.
Commit(status) == IF status = "open" THEN "committed" ELSE status
Rollback(status) == IF status = "open" THEN "rolledback" ELSE status

\* Variant: the deferred Rollback that follows the Commit takes it back.
TxEndDeferredUndoes(err) ==
    RollbackUndoesCommit(IF err = "nil" THEN Commit("open") ELSE "open")

\* The status a handler leaves its transaction in: `return tx.Commit()` when
\* it got no error, then the deferred Rollback.
TxEnd(err) == Rollback(IF err = "nil" THEN Commit("open") ELSE "open")
\* The same with `tx.Rollback()` called before the error is returned.
TxEndExplicit(err) ==
    Rollback(IF err = "nil" THEN Commit("open") ELSE Rollback("open"))
Settle(err, before, after) == IF TxEnd(err) = "committed" THEN after ELSE before

\* An INSERT of id waits while another open transaction holds an
\* uncommitted row with that id.
Blocked(p, id) == \E q \in Procs \ {p} : Matching(pend[q], id) # {}

\* db.Begin(): now() of the transaction is the time of its begin.
Begin(p) == txTime' = [txTime EXCEPT ![p] = clock]
EndTx(p) == txTime' = [txTime EXCEPT ![p] = NoTime]

\* The handlers whose statement writes the blob of a row.
ContentOps == {"Update", "UpdateWithOwner", "Patch", "PatchWithOwner",
               "UpdateByService", "StorePublished", "SmartUpdateWithOwner"}

\* The count of committed content writes: one more for the id of a content
\* handler that commits, none for the id a committed Delete has removed.
Counted(p, end) ==
    IF end = "committed" /\ op[p] \in ContentOps
    THEN [commits EXCEPT ![arg[p].id] = @ + 1]
    ELSE IF end = "committed" /\ op[p] = "Delete"
    THEN [commits EXCEPT ![arg[p].id] = 0]
    ELSE commits

\* The handler returns: its transaction is over.
Finish(p, err, val, end) ==
    /\ pc' = [pc EXCEPT ![p] = "done"]
    /\ ret' = [ret EXCEPT ![p] = [err |-> err, val |-> val]]
    /\ tx' = [tx EXCEPT ![p] = end]
    /\ arg' = [arg EXCEPT ![p] = NoArgs]
    /\ pend' = [pend EXCEPT ![p] = {}]
    /\ fam' = [fam EXCEPT ![p] = 0]
    /\ EndTx(p)
    /\ commits' = Counted(p, end)
    /\ UNCHANGED <<op, nops>>

\* A whole handler of one statement: Begin, the statement, Commit or Rollback.
OneStatement(p, r, err) ==
    /\ db' = Settle(err, db, r.rows)
    /\ Finish(p, err, {}, TxEnd(err))

\* ---------------------------------------------------------------- handlers
At(p, o, where) == pc[p] = where /\ op[p] = o

ChangeOwnerTo(p) ==
    /\ At(p, "ChangeOwnerTo", "called")
    /\ LET r == ExecChangeOwner(db, arg[p].id, arg[p].uid)
       IN  OneStatement(p, r, handleError(r.err))

Store(p) ==
    /\ At(p, "Store", "called")
    /\ ~Blocked(p, arg[p].batch[1].id)
    /\ LET r == txStore(db, arg[p].batch[1], clock)
       IN  OneStatement(p, r, handleError(r.err))

\* BatchStore: Begin, one Tx.Store per dataset of the list, Commit.
BatchStoreBegin(p) ==
    /\ At(p, "BatchStore", "called")
    /\ Begin(p)
    /\ pc' = [pc EXCEPT ![p] = "storing"]
    /\ tx' = [tx EXCEPT ![p] = "open"]
    /\ UNCHANGED <<db, op, arg, ret, pend, fam, nops, commits>>

\* The dataset the loop of BatchStore is at.
NextInBatch(p) == arg[p].batch[Cardinality(pend[p]) + 1]
BatchLeft(p) == Cardinality(pend[p]) < Len(arg[p].batch)

\* Variant: the inserts made before the failing one stay.
BatchRollbackKeeps(before, pending) == before \cup pending

\* The rows of the transaction's failed or abandoned inserts are dropped.
BatchRollback(before, pending) == before
BatchCommit(before, pending) == before \cup pending

BatchStoreInsert(p) ==
    /\ At(p, "BatchStore", "storing")
    /\ BatchLeft(p)
    /\ ~Blocked(p, NextInBatch(p).id)
    /\ LET r == txStore(db \cup pend[p], NextInBatch(p), txTime[p])
       IN  IF r.err = "nil"
           THEN /\ pend' = [pend EXCEPT ![p] = r.rows \ db]
                /\ UNCHANGED <<db, pc, op, arg, ret, tx, txTime, fam, nops, commits>>
           ELSE /\ db' = BatchRollback(db, pend[p])
                /\ Finish(p, r.err, {}, TxEndExplicit(r.err))
            
BatchStoreCommit(p) ==
    /\ At(p, "BatchStore", "storing")
    /\ ~BatchLeft(p)
    /\ db' = Settle("nil", db, BatchCommit(db, pend[p]))
    /\ Finish(p, "nil", {}, TxEndExplicit("nil"))

\* Two batches each waiting for a row the other inserted: the engine ends
\* the wait of one of them with a deadlock error.
BatchStoreDeadlock(p) ==
    /\ At(p, "BatchStore", "storing")
    /\ BatchLeft(p)
    /\ \E q \in Procs \ {p} :
         /\ Matching(pend[q], NextInBatch(p).id) # {}
         /\ At(q, "BatchStore", "storing")
         /\ BatchLeft(q)
         /\ Matching(pend[p], NextInBatch(q).id) # {}
    /\ db' = BatchRollback(db, pend[p])
    /\ Finish(p, "DeadlockDetected", {}, TxEndExplicit("DeadlockDetected"))

Update(p) ==
    /\ At(p, "Update", "called")
    /\ LET r == txUpdate(db, arg[p].id, arg[p].blob, clock)
       IN  OneStatement(p, r, handleError(r.err))

UpdateByService(p) ==
    /\ At(p, "UpdateByService", "called")
    /\ LET r == txUpdateByService(db, arg[p].id, arg[p].blob, clock)
       IN  OneStatement(p, r, handleError(r.err))

Patch(p) ==
    /\ At(p, "Patch", "called")
    /\ LET r == txPatch(db, arg[p].id, arg[p].blob, clock)
       IN  OneStatement(p, r, handleError(r.err))

StorePublished(p) ==
    /\ At(p, "StorePublished", "called")
    /\ LET r == ExecStorePublished(db, arg[p].id, arg[p].blob, clock)
       IN  OneStatement(p, r, handleError(r.err))

Clone(p) ==
    /\ At(p, "Clone", "called")
    /\ LET r == ExecClone(db, arg[p].id, arg[p].newid, arg[p].blob)
       IN  OneStatement(p, r, handleError(r.err))

\* time.Now() is read by the client after Begin.
MarkPublished(p) ==
    /\ At(p, "MarkPublished", "called")
    /\ LET r == txMarkPublished(db, arg[p].id, arg[p].published, clock + 1)
       IN  /\ db' = Settle(r.err, db, r.rows)
           /\ Finish(p, r.err, {}, TxEndExplicit(r.err))

\* DB.CheckOwner: the guard in a transaction of its own.
CheckOwner(p) ==
    /\ At(p, "CheckOwner", "called")
    /\ Finish(p, txCheckOwner(db, arg[p].id, arg[p].uid), {}, Rollback("open"))
    /\ UNCHANGED db

\* DB.Get and DB.ListAllForUid query the pool without a transaction.
Get(p) ==
    /\ At(p, "Get", "called")
    /\ LET r == ExecGet(db, arg[p].id)
       IN  Finish(p, r.err, r.val, "none")
    /\ UNCHANGED db

ListAllForUid(p) ==
    /\ At(p, "ListAllForUid", "called")
    /\ LET r == ExecListAllForUid(db, arg[p].uid)
       IN  Finish(p, r.err, r.val, "none")
    /\ UNCHANGED db

\* ---------------------------------------------------------------- guarded handlers
HasGuard(p) ==
    \/ op[p] \in GuardedOps
    \/ op[p] = "Delete" /\ arg[p].uid # NoId

\* First step of every guarded handler: Begin, tx.CheckOwner, and the early
\* return when the guard fails.
Guard(p) ==
    /\ pc[p] = "called"
    /\ HasGuard(p)
    /\ LET err == txCheckOwner(db, arg[p].id, arg[p].uid)
       IN  IF err = "nil"
           THEN /\ pc' = [pc EXCEPT ![p] = "checked"]
                /\ tx' = [tx EXCEPT ![p] = "open"]
                /\ Begin(p)
                /\ UNCHANGED <<op, arg, ret, pend, fam, nops, commits>>
           ELSE Finish(p, handleError(err), {}, Rollback("open"))
    /\ UNCHANGED db

\* The statement after the guard, with Commit or Rollback.
Guarded(p, r, err) ==
    /\ db' = Settle(err, db, r.rows)
    /\ Finish(p, err, {}, TxEnd(err))

UpdateWithOwner(p) ==
    /\ At(p, "UpdateWithOwner", "checked")
    /\ LET r == txUpdate(db, arg[p].id, arg[p].blob, txTime[p])
       IN  Guarded(p, r, handleError(r.err))

PatchWithOwner(p) ==
    /\ At(p, "PatchWithOwner", "checked")
    /\ LET r == txPatch(db, arg[p].id, arg[p].blob, txTime[p])
       IN  Guarded(p, r, handleError(r.err))

MarkPublishedWithOwner(p) ==
    /\ At(p, "MarkPublishedWithOwner", "checked")
    /\ LET r == txMarkPublished(db, arg[p].id, arg[p].published, clock)
       IN  /\ db' = Settle(r.err, db, r.rows)
           /\ Finish(p, r.err, {}, TxEndExplicit(r.err))

\* DB.Delete: guarded when an owner is given.
Delete(p) ==
    /\ op[p] = "Delete"
    /\ \/ pc[p] = "called" /\ ~HasGuard(p)
       \/ pc[p] = "checked"
    /\ LET r == ExecDelete(db, arg[p].id)
       IN  Guarded(p, r, handleError(r.err))

GetWithOwner(p) ==
    /\ At(p, "GetWithOwner", "checked")
    /\ LET r == txGet(db, arg[p].id, "")
       IN  Finish(p, r.err, r.val, Rollback("open"))
    /\ UNCHANGED db

\* Second step of the smart handlers: tx.getFamily and models.LookupFamily.
GetFamily(p) ==
    /\ pc[p] = "checked"
    /\ op[p] \in {"SmartUpdateWithOwner", "SmartGetWithOwner"}
    /\ LET f == txGetFamily(db, arg[p].id)
           err == IF f.err # "nil" THEN f.err ELSE LookupFamily(f.fam).err
       IN  IF err = "nil"
           THEN /\ pc' = [pc EXCEPT ![p] = "famread"]
                /\ fam' = [fam EXCEPT ![p] = f.fam]
                /\ UNCHANGED <<op, arg, ret, tx, txTime, pend, nops, commits>>
           ELSE Finish(p, err, {}, Rollback("open"))
    /\ UNCHANGED db

\* Variant: the two branches are swapped.
SmartDispatchSwapped(rows, family, id, blob, now) ==
    IF LookupFamily(family).partial
    THEN txUpdate(rows, id, blob, now)
    ELSE txPatch(rows, id, blob, now)

\* The primitive the family read by getFamily selects.
SmartDispatch(rows, family, id, blob, now) ==
    IF LookupFamily(family).partial
    THEN txPatch(rows, id, blob, now)
    ELSE txUpdate(rows, id, blob, now)

SmartUpdateWithOwner(p) ==
    /\ At(p, "SmartUpdateWithOwner", "famread")
    /\ LET r == SmartDispatch(db, fam[p], arg[p].id, arg[p].blob, txTime[p])
       IN  Guarded(p, r, handleError(r.err))

SmartGetWithOwner(p) ==
    /\ At(p, "SmartGetWithOwner", "famread")
    /\ LET family == LookupFamily(fam[p])
           r == txGet(db, arg[p].id, IF family.partial THEN family.key ELSE "")
       IN  Finish(p, r.err, r.val, Rollback("open"))
    /\ UNCHANGED db

\* ---------------------------------------------------------------- specification
Next ==
    \E p \in Procs :
        \/ Call(p)
        \/ ChangeOwnerTo(p)
        \/ Store(p)
        \/ BatchStoreBegin(p)
        \/ BatchStoreInsert(p)
        \/ BatchStoreCommit(p)
        \/ BatchStoreDeadlock(p)
        \/ Update(p)
        \/ UpdateByService(p)
        \/ Patch(p)
        \/ StorePublished(p)
        \/ Clone(p)
        \/ MarkPublished(p)
        \/ CheckOwner(p)
        \/ Get(p)
        \/ ListAllForUid(p)
        \/ Guard(p)
        \/ UpdateWithOwner(p)
        \/ PatchWithOwner(p)
        \/ MarkPublishedWithOwner(p)
        \/ Delete(p)
        \/ GetWithOwner(p)
        \/ GetFamily(p)
        \/ SmartUpdateWithOwner(p)
        \/ SmartGetWithOwner(p)

Spec == Init /\ [][Next]_vars

\* ---------------------------------------------------------------- re-created records
\* Runs of SmartUpdateWithOwner next to callers that delete a record and
\* store one with the same id again, in another family than it had.
MaxStaleOps == 3
StaleOps == {"SmartUpdateWithOwner", "Delete", "Store"}
StaleDatasets ==
    Datasets \cup { Dataset(d.id, d.creator, d.owner, f, d.blob) :
                      d \in Datasets, f \in Families }
StaleArgs(o) ==
    IF o = "Store"
    THEN { Args(NoId, NoId, NoId, EmptyDoc, FALSE, <<d>>) : d \in StaleDatasets }
    ELSE OpArgs(o)

CallStale(p) ==
    /\ Quiet(p)
    /\ \A q \in Procs : q < p => ~Quiet(q)
    /\ nops < MaxStaleOps
    /\ \E o \in StaleOps : \E a \in StaleArgs(o) :
         /\ op' = [op EXCEPT ![p] = o]
         /\ arg' = [arg EXCEPT ![p] = a]
    /\ pc' = [pc EXCEPT ![p] = "called"]
    /\ ret' = [ret EXCEPT ![p] = NoRet]
    /\ tx' = [tx EXCEPT ![p] = "none"]
    /\ nops' = nops + 1
    /\ UNCHANGED <<db, txTime, pend, fam, commits>>

NextStale ==
    \E p \in Procs :
        \/ CallStale(p)
        \/ Store(p)
        \/ Guard(p)
        \/ Delete(p)
        \/ GetFamily(p)
        \/ SmartUpdateWithOwner(p)

SpecStale == Init /\ [][NextStale]_vars

\* ---------------------------------------------------------------- properties
\* Process p returns from its handler in this step.
Returns(p) == pc[p] # "done" /\ pc[p] # "idle" /\ pc'[p] = "done"
ReturnsNil(p) == Returns(p) /\ ret'[p].err = "nil"
\* Process p runs its guard statement in this step.
Guards(p) == pc[p] = "called" /\ HasGuard(p) /\ pc'[p] # "called"
\* p is done with handler o, which returned err.
Returned(p, o, err) == pc[p] = "done" /\ op[p] = o /\ ret[p].err = err

GuardedMutations == {"UpdateWithOwner", "PatchWithOwner", "SmartUpdateWithOwner",
                     "MarkPublishedWithOwner", "Delete"}

\* C1: a guarded mutation commits only when its principal owns the record at
\* the moment the mutation statement is applied.
C1_OwnerAtMutation ==
    [][\A p \in Procs :
         (ReturnsNil(p) /\ pc[p] \in {"checked", "famread"} /\ op[p] \in GuardedMutations)
         => \E r \in Matching(db, arg[p].id) : r.owner = arg[p].uid]_vars

\* C2: CheckOwner, as a handler and as the guard of a transaction, succeeds
\* exactly when a row with the id exists and its owner is the principal; it
\* returns ErrNotFound when there is no such row and ErrNotOwner when the row
\* has another owner.
CheckOwnerAnswer(id, uid) ==
    IF \A r \in db : r.id # id THEN "ErrNotFound"
    ELSE IF \E r \in db : r.id = id /\ r.owner = uid THEN "nil"
    ELSE "ErrNotOwner"
C2_CheckOwner ==
    [][\A p \in Procs :
         /\ (Returns(p) /\ op[p] = "CheckOwner")
            => ret'[p].err = CheckOwnerAnswer(arg[p].id, arg[p].uid)
         /\ Guards(p)
            => IF CheckOwnerAnswer(arg[p].id, arg[p].uid) = "nil"
               THEN pc'[p] = "checked"
               ELSE /\ pc'[p] = "done"
                    /\ ret'[p].err = CheckOwnerAnswer(arg[p].id, arg[p].uid)]_vars
C2_Witness ==
    \E p, q \in Procs : Returned(p, "CheckOwner", "nil") /\ Returned(q, "CheckOwner", "ErrNotOwner")

\* C3: a guarded update, patch, smart update or publish called by a principal
\* who does not own the existing record returns ErrNotOwner from its guard
\* step, before any mutation statement, and no row changes.
C3_NotOwnerShortCircuits ==
    [][\A p \in Procs :
         ( /\ Guards(p)
           /\ op[p] \in GuardedMutations \ {"Delete"}
           /\ \E r \in Matching(db, arg[p].id) : r.owner # arg[p].uid )
         => /\ pc'[p] = "done"
            /\ ret'[p].err = "ErrNotOwner"
            /\ tx'[p] = "rolledback"
            /\ db' = db]_vars
C3_Witness ==
    \E p \in Procs : \E o \in GuardedMutations \ {"Delete"} : Returned(p, o, "ErrNotOwner")

\* C4: BatchStore is all-or-nothing.  No step of a BatchStore changes the
\* relation except its Commit, which adds one row for each of the N datasets
\* of the list; a BatchStore whose K-th insert fails returns the error with
\* the relation as it was.
BatchRows(p) == { InsertedRow(arg[p].batch[k], txTime[p]) : k \in 1..Len(arg[p].batch) }
C4_BatchAllOrNothing ==
    [][\A p \in Procs :
         (op[p] = "BatchStore" /\ pc[p] \in {"called", "storing"}
             /\ <<pc[p], pend[p]>> # <<pc'[p], pend'[p]>>)
         => IF pc'[p] = "done" /\ ret'[p].err = "nil"
            THEN /\ db' = db \cup BatchRows(p)
                 /\ Cardinality(db') = Cardinality(db) + Len(arg[p].batch)
                 /\ \A r \in BatchRows(p) : Cardinality(Matching(db', r.id)) = 1
            ELSE db' = db]_vars
\* A batch whose first insert is done and whose second is about to fail.
C4_Witness ==
    \E p \in Procs :
        /\ pc[p] = "storing" /\ pend[p] # {} /\ BatchLeft(p)
        /\ Matching(db \cup pend[p], NextInBatch(p).id) # {}

\* C5: the seq of a row never decreases; a step adds exactly 1 to it when it
\* is a successful content-mutating write of that row and 0 otherwise.
ContentWrite(id) ==
    \E p \in Procs : ReturnsNil(p) /\ op[p] \in ContentOps /\ arg[p].id = id
C5_SeqCounts ==
    [][\A id \in Ids : \A old \in Matching(db, id) : \A new \in Matching(db', id) :
         new.seq = old.seq + (IF ContentWrite(id) THEN 1 ELSE 0)]_vars
C5_Witness ==
    /\ \E r \in db : r.seq = 2
    /\ \E p \in Procs : Returned(p, "StorePublished", "nil")

\* C6: a successful Patch leaves at every top-level key of the patch the
\* patch's value, at every other key the previous value, and seq one higher.
C6_PatchMerges ==
    [][\A p \in Procs :
         (ReturnsNil(p) /\ op[p] = "Patch")
         => /\ Matching(db, arg[p].id) # {}
            /\ \A old \in Matching(db, arg[p].id) :
                 \E new \in Matching(db', arg[p].id) :
                   /\ \A k \in Keys :
                        new.blob[k] = IF arg[p].blob[k] # JAbsent
                                      THEN arg[p].blob[k] ELSE old.blob[k]
                   /\ new.seq = old.seq + 1]_vars
\* Patched: k1 kept from the stored document, the object at k2 replaced whole.
C6_Witness ==
    /\ \E p \in Procs : Returned(p, "Patch", "nil")
    /\ \E r \in db : r.seq = 1 /\ r.blob = [k1 |-> JNum(1), k2 |-> JObj({<<"n2", 2>>})]

\* C7: after a successful Update a Get of the id returns exactly the new
\* document, seq is one higher and modified is the time of the update.
C7_UpdateReplaces ==
    [][\A p \in Procs :
         (ReturnsNil(p) /\ op[p] = "Update")
         => /\ Matching(db, arg[p].id) # {}
            /\ ExecGet(db', arg[p].id).err = "nil"
            /\ \A got \in ExecGet(db', arg[p].id).val : got.blob = arg[p].blob
            /\ \A old \in Matching(db, arg[p].id) :
                 \E new \in Matching(db', arg[p].id) :
                   /\ new.seq = old.seq + 1
                   /\ new.modified = clock
                   /\ new.modified > old.modified]_vars
C7_Witness ==
    /\ \E p \in Procs : Returned(p, "Update", "nil")
    /\ \E r \in db : r.seq = 1 /\ r.blob = DocNested

\* C8: SmartUpdateWithOwner that passed its guard changes the relation as
\* Patch does when the family of the record is partial and as Update does
\* when it is not, adds 1 to seq, and runs guard, family read and mutation in
\* the one transaction it began.
IsPartial(family) == LookupFamily(family).partial
C8_SmartUpdateDispatch ==
    [][\A p \in Procs :
         op[p] = "SmartUpdateWithOwner"
         => /\ (pc[p] \in {"checked", "famread"} /\ pc'[p] # pc[p])
               => /\ tx[p] = "open"
                  /\ txTime[p] # NoTime
                  /\ txTime'[p] = IF pc'[p] = "done" THEN NoTime ELSE txTime[p]
            /\ ReturnsNil(p)
               => /\ pc[p] = "famread"
                  /\ tx'[p] = "committed"
                  /\ \A old \in Matching(db, arg[p].id) :
                       old.family = fam[p]
                       => /\ db' = IF IsPartial(old.family)
                                   THEN txPatch(db, arg[p].id, arg[p].blob, txTime[p]).rows
                                   ELSE txUpdate(db, arg[p].id, arg[p].blob, txTime[p]).rows
                          /\ \E new \in Matching(db', arg[p].id) :
                               new.seq = old.seq + 1]_vars
\* A smart update of a partial record merged, one of a full record replaced.
C8_Witness ==
    /\ \E p \in Procs : Returned(p, "SmartUpdateWithOwner", "nil")
    /\ \E r \in db : /\ r.family = FamilyPartial /\ r.seq = 1
                     /\ r.blob = [k1 |-> JNum(2), k2 |-> JObj({<<"n1", 1>>})]
    /\ \E r \in db : r.family = FamilyFull /\ r.seq = 1 /\ r.blob = DocFlat

\* C9: Delete by a principal who does not own the existing record returns
\* ErrNotOwner and changes nothing; Delete without a principal, or after its
\* guard passed, removes the row when there is one, so that Get then returns
\* ErrNotFound; Delete of an id without a row returns ErrNotFound.
C9_Delete ==
    [][\A p \in Procs :
         op[p] = "Delete"
         => /\ Guards(p)
               => IF \E r \in Matching(db, arg[p].id) : r.owner # arg[p].uid
                  THEN pc'[p] = "done" /\ ret'[p].err = "ErrNotOwner" /\ db' = db
                  ELSE IF Matching(db, arg[p].id) = {}
                  THEN pc'[p] = "done" /\ ret'[p].err = "ErrNotFound" /\ db' = db
                  ELSE pc'[p] = "checked" /\ db' = db
            /\ (Returns(p) /\ ~Guards(p))
               => IF Matching(db, arg[p].id) = {}
                  THEN ret'[p].err = "ErrNotFound" /\ db' = db
                  ELSE /\ ret'[p].err = "nil"
                       /\ db' = db \ Matching(db, arg[p].id)
                       /\ ExecGet(db', arg[p].id).err = "ErrNotFound"]_vars
C9_Witness ==
    \E p, q \in Procs : Returned(p, "Delete", "nil") /\ Returned(q, "Get", "ErrNotFound")

\* C10: a successful MarkPublished or MarkPublishedWithOwner sets published to
\* the given flag and synced to the time of the statement, and changes no
\* other column of the row and no other row.
C10_MarkPublishedFrame ==
    [][\A p \in Procs :
         (ReturnsNil(p) /\ op[p] \in {"MarkPublished", "MarkPublishedWithOwner"})
         => \E old \in Matching(db, arg[p].id) : \E t \in clock..(clock + 1) :
              /\ t > old.synced
              /\ db' = (db \ {old}) \cup
                       {[old EXCEPT !.published = arg[p].published, !.synced = t]}]_vars
C10_Witness ==
    /\ \E p \in Procs : Returned(p, "MarkPublishedWithOwner", "nil")
    /\ \E r \in db : r.published /\ r.synced # NoTime /\ r.seq = 0 /\ r.blob = DocBase

\* C11: Clone of an existing source to a free id returns nil and inserts a row
\* with the new id and the given blob whose creator, owner, created,
\* modified, synced, published, valid, family and schema are the source's,
\* leaving the source row as it was; Clone of a missing source returns
\* ErrNotFound and inserts nothing.
ClonedColumns(r) ==
    <<r.creator, r.owner, r.created, r.modified, r.synced, r.published,
      r.valid, r.family, r.schema>>
C11_Clone ==
    [][\A p \in Procs :
         (Returns(p) /\ op[p] = "Clone")
         => IF Matching(db, arg[p].id) = {}
            THEN ret'[p].err = "ErrNotFound" /\ db' = db
            ELSE Matching(db, arg[p].newid) = {}
                 => /\ ret'[p].err = "nil"
                    /\ db \subseteq db'
                    /\ \A src \in Matching(db, arg[p].id) :
                         \E new \in db' \ db :
                           /\ db' = db \cup {new}
                           /\ new.id = arg[p].newid
                           /\ new.blob = arg[p].blob
                           /\ ClonedColumns(new) = ClonedColumns(src)]_vars

\* C12: after a successful Store of a dataset whose id was free, Get of the
\* id returns the stored id, creator, owner, family, schema and blob, and the
\* seq of the new row is 0.
C12_StoreThenGet ==
    [][\A p \in Procs :
         (Returns(p) /\ op[p] = "Store")
         => LET d == arg[p].batch[1]
            IN  IF Matching(db, d.id) # {}
                THEN ret'[p].err # "nil" /\ db' = db
                ELSE /\ ret'[p].err = "nil"
                     /\ ExecGet(db', d.id).err = "nil"
                     /\ \A got \in ExecGet(db', d.id).val :
                          <<got.id, got.creator, got.owner, got.family, got.schema, got.blob>>
                            = <<d.id, d.creator, d.owner, d.family, d.schema, d.blob>>
                     /\ \A r \in Matching(db', d.id) : r.seq = 0
                     /\ Cardinality(Matching(db', d.id)) = 1]_vars
C12_Witness ==
    /\ \E p \in Procs : Returned(p, "Store", "nil")
    /\ \E r \in db : r.id = "b" /\ r.creator = "u1" /\ r.owner = "u2" /\ r.seq = 0

\* C13: every statement of Update, Patch, updateByService, StorePublished,
\* MarkPublished, Clone, Delete, Get, GetWithOwner and of the guarded
\* variants that finds no row with the id makes its handler return
\* ErrNotFound, with the relation as it was.
NotFoundOps == {"Update", "Patch", "UpdateByService", "StorePublished",
                "MarkPublished", "Clone", "Delete", "Get", "GetWithOwner",
                "UpdateWithOwner", "PatchWithOwner", "SmartUpdateWithOwner",
                "MarkPublishedWithOwner", "SmartGetWithOwner"}
AbsentIsNotFound(ops) ==
    \A p \in Procs :
        ( /\ op[p] \in ops
          /\ pc[p] \in {"called", "checked", "famread"}
          /\ pc'[p] # pc[p]
          /\ Matching(db, arg[p].id) = {} )
        => /\ pc'[p] = "done"
           /\ ret'[p].err = "ErrNotFound"
           /\ db' = db
C13_AbsentIsNotFound == [][AbsentIsNotFound(NotFoundOps)]_vars
\* The same for every handler of C13 but Clone.
AbsentIsNotFoundButClone == [][AbsentIsNotFound(NotFoundOps \ {"Clone"})]_vars


\* C14: a ChangeOwnerTo that returns nil for an id that has a row leaves the
\* relation as it was but for the owner of that row, which is the new
\* owner; CheckOwner of the id then answers nil for the new owner and
\* ErrNotOwner for the previous one when the two differ.
C14_ChangeOwnerFrame ==
    [][\A p \in Procs :
        (ReturnsNil(p) /\ op[p] = "ChangeOwnerTo") =>
            \A old \in Matching(db, arg[p].id) :
                /\ db' = (db \ {old}) \cup {[old EXCEPT !.owner = arg[p].uid]}
                /\ txCheckOwner(db', arg[p].id, arg[p].uid) = "nil"
                /\ old.owner # arg[p].uid =>
                       txCheckOwner(db', arg[p].id, old.owner) = "ErrNotOwner"]_vars
\* Row a, stored with owner u1, is owned by u2 after a ChangeOwnerTo, next to row b.
C14_Witness ==
    /\ \E p \in Procs : Returned(p, "ChangeOwnerTo", "nil")
    /\ \E r \in db : r.id = "a" /\ r.owner = "u2" /\ r.creator = "u1"
    /\ \E r \in db : r.id = "b"

\* C18: ChangeOwnerTo of an id that has no row returns nil with its
\* transaction committed, and the relation is as it was.
C18_ChangeOwnerAbsent ==
    [][\A p \in Procs :
        (Returns(p) /\ op[p] = "ChangeOwnerTo" /\ Matching(db, arg[p].id) = {}) =>
            /\ ret'[p].err = "nil"
            /\ tx'[p] = "committed"
            /\ db' = db]_vars
\* The one call so far, a ChangeOwnerTo, has returned nil on the empty relation.
C18_Witness ==
    /\ \E p \in Procs : Returned(p, "ChangeOwnerTo", "nil")
    /\ nops = 1
    /\ db = {}


\* The handlers that begin a transaction, and those of them that only read.
TxOps == Ops \ {"Get", "ListAllForUid"}
ReadOnlyTxOps == {"CheckOwner", "GetWithOwner", "SmartGetWithOwner"}
\* The relation changes only in the step in which a handler commits and returns nil.
ChangesOnlyAtCommit ==
    db' # db => \E p \in Procs : ReturnsNil(p) /\ tx'[p] = "committed"
\* A handler that returns an error leaves its transaction rolled back and the
\* relation as it was; no handler returns with rows pending or its
\* transaction open.
ErrorRollsBack(p) ==
    /\ ret'[p].err # "nil" => tx'[p] = "rolledback" /\ db' = db
    /\ tx'[p] \in {"committed", "rolledback"}
    /\ pend'[p] = {}

\* C15 as stated: every handler that begins a transaction returns nil only
\* with its transaction committed and an error only with it rolled back and
\* the relation as it was, the relation changes only at a commit, and no
\* transaction is open after its handler returned.
C15_SuccessOnlyAfterCommit ==
    [][/\ ChangesOnlyAtCommit
       /\ \A p \in Procs :
            (Returns(p) /\ op[p] \in TxOps) =>
                /\ ErrorRollsBack(p)
                /\ ret'[p].err = "nil" => tx'[p] = "committed"]_vars

\* C15 amended: as above, but only the handlers that write return nil with
\* the transaction committed; CheckOwner, GetWithOwner and SmartGetWithOwner
\* never commit and return nil with the transaction rolled back by the
\* deferred Rollback, the relation as it was.
C15_TransactionEnds ==
    [][/\ ChangesOnlyAtCommit
       /\ \A p \in Procs :
            (Returns(p) /\ op[p] \in TxOps) =>
                /\ ErrorRollsBack(p)
                /\ ret'[p].err = "nil" =>
                     IF op[p] \in ReadOnlyTxOps
                     THEN tx'[p] = "rolledback" /\ db' = db
                     ELSE tx'[p] = "committed"]_vars
\* A read has returned nil with its transaction rolled back, next to a
\* MarkPublished that returned nil with its transaction committed and its
\* row published.
C15_Witness ==
    /\ \E p \in Procs :
         /\ Returned(p, "SmartGetWithOwner", "nil")
         /\ tx[p] = "rolledback"
         /\ ret[p].val # {}
    /\ \E q \in Procs : Returned(q, "MarkPublished", "nil") /\ tx[q] = "committed"
    /\ \E r \in db : r.published


\* C16: the seq of every row is the seq it was inserted with plus the number
\* of content-writing transactions on it that committed, however they
\* interleave with each other and with MarkPublished and ChangeOwnerTo.
C16_NoLostIncrement ==
    \A r \in db : r.seq = DefaultSeq + commits[r.id]
\* Two content writes on one row have committed, the second by a transaction
\* that began before the first one committed: the row's modified is the
\* begin time of the later commit, the time of the run's first Begin.
C16_Witness ==
    /\ \A p \in Procs : pc[p] = "done" /\ op[p] \in ContentOps /\ ret[p].err = "nil"
    /\ \E r \in db :
         /\ r.seq = DefaultSeq + 2
         /\ commits[r.id] = 2
         /\ r.modified = r.created + 1


\* C17: the statement of a SmartUpdateWithOwner that returns nil changes the
\* relation as the primitive does that the family of the row prescribes
\* which the statement finds: Patch for a partial family, Update otherwise.
C17_NoStaleFamily ==
    [][\A p \in Procs :
        (ReturnsNil(p) /\ op[p] = "SmartUpdateWithOwner") =>
            \A old \in Matching(db, arg[p].id) :
                db' = IF IsPartial(old.family)
                      THEN txPatch(db, arg[p].id, arg[p].blob, txTime[p]).rows
                      ELSE txUpdate(db, arg[p].id, arg[p].blob, txTime[p]).rows]_vars


\* C19: Clone of an existing source to a free id returns nil and adds one
\* row that equals the source row of that moment in every field but id and
\* blob, seq among them, whatever content writes the source has had.
C19_ClonePreservesAll ==
    [][\A p \in Procs :
        ( /\ Returns(p)
          /\ op[p] = "Clone"
          /\ Matching(db, arg[p].id) # {}
          /\ Matching(db, arg[p].newid) = {} )
        => /\ ret'[p].err = "nil"
           /\ \A src \in Matching(db, arg[p].id) :
                db' = db \cup {[src EXCEPT !.id = arg[p].newid, !.blob = arg[p].blob]}]_vars


\* C20: in every step a row that stays keeps its id, creator and family, and
\* keeps its owner unless the step is a ChangeOwnerTo of its id returning
\* nil; the steps of Get, GetWithOwner, SmartGetWithOwner, CheckOwner and
\* ListAllForUid leave the whole relation as it was.
ReadOps == {"Get", "GetWithOwner", "SmartGetWithOwner", "CheckOwner", "ListAllForUid"}
OwnerTransfer(id) ==
    \E p \in Procs : ReturnsNil(p) /\ op[p] = "ChangeOwnerTo" /\ arg[p].id = id
C20_IdentityFields ==
    [][/\ \A id \in Ids : \A old \in Matching(db, id) : \A new \in Matching(db', id) :
            /\ <<new.id, new.creator, new.family>> = <<old.id, old.creator, old.family>>
            /\ new.owner # old.owner => OwnerTransfer(id)
       /\ \A p \in Procs :
            (op[p] \in ReadOps /\ pc[p] \in {"called", "checked", "famread"}
                               /\ pc'[p] # pc[p])
            => db' = db]_vars
\* Row b has had a content write by the service and a publish transition
\* and has the creator, owner and family it was stored with.
C20_Witness ==
    /\ \E p \in Procs : Returned(p, "UpdateByService", "nil")
    /\ \E q \in Procs : Returned(q, "MarkPublishedWithOwner", "nil")
    /\ \E r \in db :
         /\ r.id = "b" /\ r.seq = 1 /\ r.published
         /\ r.creator = "u1" /\ r.owner = "u2" /\ r.family = FamilyPartial

====
